---- MODULE Spec2Model ----
(***************************************************************************)
(* A model of the troi playlist elements and command line:                 *)
(*   - InterleaveRecordingsElement.read        (patches/artist_radio.py)   *)
(*   - DecadePlaylistSplitterElement.read      (patches/weekly_flashback_  *)
(*                                              jams.py)                   *)
(*   - ArtistRadioSourceElement.read           (patches/artist_radio.py)   *)
(*   - ArtistRadioPatch.create, WeeklyFlashbackJams.create                 *)
(*   - the playlist, lb-radio and weekly-jams commands  (cli.py)           *)
(*   - PrintRecordingList.print               (print_recording.py)        *)
(* Each component is a small state machine with its own specification;     *)
(* the variables of the components that a specification does not run stay  *)
(* at their idle values.                                                   *)
(***************************************************************************)
EXTENDS Integers, Sequences, FiniteSets, Bags, TLC

VARIABLES
    \* InterleaveRecordingsElement.read
    ilv_pc,          \* "idle" | "for" | "done"
    ilv_input,       \* the sequences as they were handed to read (history)
    entities,        \* the argument of read: a list of lists, popped in place
    ilv_recordings,  \* the local list `recordings`
    empty,           \* the local counter `empty`
    ilv_idx,         \* position of the `for entity in entities` loop
    \* DecadePlaylistSplitterElement.read
    dec_pc,          \* "idle" | "start" | "emit" | "done"
    dec_inputs,      \* inputs[0]
    minimum_count,   \* self.minimum_count
    decades,         \* the defaultdict, as a list of [decade, recs] in insertion order
    playlists,       \* the local list `playlists`
    dec_idx,         \* position of the `for decade in decades` loop
    dec_return,      \* what read returned
    \* ArtistRadioSourceElement.read
    ar_pc,           \* "idle" | "start" | "fetch" | "normalize" | "collate" | "done" | "raised"
    mode,            \* self.mode
    response,        \* what the similar-artists service answers for the seed
    ar_exception,    \* "none", or the exception that left read
    artist_name,     \* the seed's name: <<>> for None
    similar_artists_filtered,
    ar_idx,          \* position of the `for similar_artist in similar_artists_filtered` loop
    similar_artists, \* self.similar_artists
    raw_recordings,  \* per collected artist, its recordings as they were fetched (history)
    fetches,         \* number of fetch_top_recordings calls made (history)
    max_score,       \* the local `max_score`
    norm_idx,        \* position of the second `for sim in self.similar_artists` loop
    ar_return,       \* what read returned, up to the order shuffle() gives it
    \* ArtistRadioPatch.create and WeeklyFlashbackJams.create
    cr_pc,           \* "idle" | "start" | "source" | "lookup" | "interleave" | "pl_maker"
                     \*  | "weekly" | "done" | "raised"
    cr_patch,        \* the slug of the patch whose create runs
    cr_inputs,       \* the `inputs` argument
    elements,        \* the Elements constructed so far, each with its sources
    lookups,         \* the local list `lookups`
    cr_calls,        \* every call create has made, in order (history)
    cr_exception,    \* "none", or the exception that left create
    cr_return,       \* <<>> or <<the element returned>>
    \* the `playlist` command
    cli_pc,          \* "idle" | "start" | "context" | "generate" | "feedback" | "exit"
                     \*  | "returned" | "exited"
    patchname,       \* the PATCH argument
    patch_args,      \* the dict handed to the patch
    args_ok,         \* whether the patch's own arguments parse
    ret,             \* <<>> or <<what generate_playlist returned>>
    stderr,          \* number of lines printed to stderr
    exit_status,     \* <<>> or <<the status the process ended with>>
    \* the `lb-radio` and `weekly-jams` commands
    lr_pc,           \* "idle" | "start" | "generate" | "check" | "done"
    lr_command,      \* "lb-radio" | "weekly-jams"
    upload_to_subsonic,
    generated,       \* what generate returned: <<>> for None, else <<its playlists>>
    lr_calls,        \* the collaborators' operations called, in order (history)
    \* PrintRecordingList
    pr_pc,           \* "idle" | "start" | "list" | "playlist" | "done" | "raised"
    pr_entity,       \* the argument of print
    pr_idx,          \* position of the `for rec in ...` loop
    printed,         \* the mbids of the recordings whose line was written, in order
    pr_exception,    \* "none", or the exception that left print
    print_year,      \* self.print_year: <<>> for None, else <<TRUE>> or <<FALSE>>
    print_listen_count,
    print_bpm,
    print_moods,
    print_genre

ilvVars == <<ilv_pc, ilv_input, entities, ilv_recordings, empty, ilv_idx>>
decVars == <<dec_pc, dec_inputs, minimum_count, decades, playlists, dec_idx, dec_return>>
arVars == <<ar_pc, mode, response, ar_exception, artist_name, similar_artists_filtered,
            ar_idx, similar_artists, raw_recordings, fetches, max_score, norm_idx, ar_return>>
crVars == <<cr_pc, cr_patch, cr_inputs, elements, lookups, cr_calls, cr_exception, cr_return>>
cliVars == <<cli_pc, patchname, patch_args, args_ok, ret, stderr, exit_status>>
lrVars == <<lr_pc, lr_command, upload_to_subsonic, generated, lr_calls>>
prVars == <<pr_pc, pr_entity, pr_idx, printed, pr_exception, print_year, print_listen_count,
            print_bpm, print_moods, print_genre>>
vars == <<ilvVars, decVars, arVars, crVars, cliVars, lrVars, prVars>>

\* what the actions of one component leave alone
exceptIlv == <<decVars, arVars, crVars, cliVars, lrVars, prVars>>
exceptDec == <<ilvVars, arVars, crVars, cliVars, lrVars, prVars>>
exceptAr == <<ilvVars, decVars, crVars, cliVars, lrVars, prVars>>
exceptCr == <<ilvVars, decVars, arVars, cliVars, lrVars, prVars>>
exceptCli == <<ilvVars, decVars, arVars, crVars, lrVars, prVars>>
exceptLr == <<ilvVars, decVars, arVars, crVars, cliVars, prVars>>
exceptPr == <<ilvVars, decVars, arVars, crVars, cliVars, lrVars>>

\* ---------------------------------------------------------------- bounds
MaxSources == 3
MaxItems == 3
MaxRecordings == 3
MaxMinimumCount == 3
MaxSimilar == 3
MaxTop == 1
MaxSeeds == 3
MaxPlaylists == 2
MaxTracks == 2
MaxPrint == 2
LongSimilar == 24
LongTop == 16

\* ---------------------------------------------------------------- helpers
Range(s) == {s[i] : i \in 1..Len(s)}

RECURSIVE SumLen(_)
SumLen(lists) == IF lists = <<>> THEN 0 ELSE Len(Head(lists)) + SumLen(Tail(lists))

Perms(s) ==
    {p \in [1..Len(s) -> Range(s)] :
        \E f \in [1..Len(s) -> 1..Len(s)] :
            /\ \A i, j \in 1..Len(s) : i # j => f[i] # f[j]
            /\ \A i \in 1..Len(s) : p[i] = s[f[i]]}

\* ------------------------------------------------ idle values of components
IlvIdle ==
    /\ ilv_pc = "idle" /\ ilv_input = <<>> /\ entities = <<>>
    /\ ilv_recordings = <<>> /\ empty = 0 /\ ilv_idx = 0

DecIdle ==
    /\ dec_pc = "idle" /\ dec_inputs = <<>> /\ minimum_count = 0
    /\ decades = <<>> /\ playlists = <<>> /\ dec_idx = 0 /\ dec_return = <<>>

ArIdle ==
    /\ ar_pc = "idle" /\ mode = "easy" /\ response = <<>> /\ ar_exception = "none"
    /\ artist_name = <<>> /\ similar_artists_filtered = <<>> /\ ar_idx = 0
    /\ similar_artists = <<>> /\ raw_recordings = <<>> /\ fetches = 0
    /\ max_score = 0 /\ norm_idx = 0 /\ ar_return = EmptyBag

CrIdle ==
    /\ cr_pc = "idle" /\ cr_patch = "" /\ cr_inputs = <<>> /\ elements = <<>>
    /\ lookups = <<>> /\ cr_calls = <<>> /\ cr_exception = "none" /\ cr_return = <<>>

CliIdle ==
    /\ cli_pc = "idle" /\ patchname = "" /\ patch_args = <<>> /\ args_ok = TRUE
    /\ ret = <<>> /\ stderr = 0 /\ exit_status = <<>>

LrIdle ==
    /\ lr_pc = "idle" /\ lr_command = "" /\ upload_to_subsonic = FALSE
    /\ generated = <<>> /\ lr_calls = <<>>

PrIdle ==
    /\ pr_pc = "idle" /\ pr_entity = <<>> /\ pr_idx = 0 /\ printed = <<>>
    /\ pr_exception = "none" /\ print_year = <<>> /\ print_listen_count = <<>>
    /\ print_bpm = <<>> /\ print_moods = <<>> /\ print_genre = <<>>

\* ======================================================================
\* InterleaveRecordingsElement.read
\* ======================================================================

\* An item is named by the source it came from and its place there.
SourceList(i, n) == [j \in 1..n |-> <<i, j>>]

InitInterleave ==
    /\ \E n \in 0..MaxSources : \E lens \in [1..n -> 0..MaxItems] :
          entities = [i \in 1..n |-> SourceList(i, lens[i])]
    /\ ilv_input = entities
    /\ ilv_pc = "for"
    /\ ilv_recordings = <<>>
    /\ empty = 0
    /\ ilv_idx = 1
    /\ DecIdle /\ ArIdle /\ CrIdle /\ CliIdle /\ LrIdle /\ PrIdle

\* entity.pop(0): the first item and the list that is left, or IndexError
PopRaises(entity) == entity = <<>>

\* one iteration of `for entity in entities`: pop(0) or count the IndexError
IlvPop ==
    /\ ilv_pc = "for"
    /\ ilv_idx <= Len(entities)
    /\ IF PopRaises(entities[ilv_idx])
       THEN /\ empty' = empty + 1
            /\ UNCHANGED <<entities, ilv_recordings>>
       ELSE /\ ilv_recordings' = Append(ilv_recordings, Head(entities[ilv_idx]))
            /\ entities' = [entities EXCEPT ![ilv_idx] = Tail(@)]
            /\ UNCHANGED empty
    /\ ilv_idx' = ilv_idx + 1
    /\ UNCHANGED <<ilv_pc, ilv_input>>
    /\ UNCHANGED exceptIlv

\* a variant that stops at the first exhausted source, as zip() does
AllEmpty_AnyEmpty(e, ents) == e > 0 \/ Len(ents) = 0

\* `if empty == len(entities): break`
AllEmpty(e, ents) == e = Len(ents)

\* the end of one pass of the for loop: break, or start the next pass with empty = 0
IlvEndPass ==
    /\ ilv_pc = "for"
    /\ ilv_idx > Len(entities)
    /\ IF AllEmpty(empty, entities)
       THEN /\ ilv_pc' = "done"
            /\ UNCHANGED <<empty, ilv_idx>>
       ELSE /\ empty' = 0
            /\ ilv_idx' = 1
            /\ UNCHANGED ilv_pc
    /\ UNCHANGED <<ilv_input, entities, ilv_recordings>>
    /\ UNCHANGED exceptIlv

NextInterleave == IlvPop \/ IlvEndPass

SpecInterleave == InitInterleave /\ [][NextInterleave]_vars

\* the loop is the only thing running: it is always scheduled
FairSpecInterleave == SpecInterleave /\ WF_vars(NextInterleave)

\* ======================================================================
\* DecadePlaylistSplitterElement.read
\* ======================================================================

\* Recording.year is None (<<>>) or a number (<<y>>)
Years == {<<>>, <<0>>, <<5>>, <<1979>>, <<1980>>, <<1989>>, <<1990>>}

Recording(mbid, year) == [type |-> "Recording", mbid |-> mbid, year |-> year]

Playlist(name, filename, recs) ==
    [type |-> "Playlist", name |-> name, filename |-> filename, recordings |-> recs]

InitDecade ==
    /\ \E n \in 0..MaxRecordings : \E ys \in [1..n -> Years] :
          dec_inputs = [i \in 1..n |-> Recording(i, ys[i])]
    /\ minimum_count \in 0..MaxMinimumCount
    /\ dec_pc = "start"
    /\ decades = <<>>
    /\ playlists = <<>>
    /\ dec_idx = 0
    /\ dec_return = <<>>
    /\ IlvIdle /\ ArIdle /\ CrIdle /\ CliIdle /\ LrIdle /\ PrIdle

\* `not r.year`: None or 0
NoYear(r) == r.year = <<>> \/ r.year[1] = 0

\* `(r.year // 10) * 10`
Decade(r) == (r.year[1] \div 10) * 10

\* decades[decade].append(r), keeping the dict's insertion order
AddToDecade(dd, decade, r) ==
    IF \E i \in 1..Len(dd) : dd[i].decade = decade
    THEN [i \in 1..Len(dd) |->
            IF dd[i].decade = decade
            THEN [dd[i] EXCEPT !.recs = Append(@, r)]
            ELSE dd[i]]
    ELSE Append(dd, [decade |-> decade, recs |-> <<r>>])

\* the loop `for r in recordings`
RECURSIVE GroupByDecade(_, _)
GroupByDecade(recs, dd) ==
    IF recs = <<>> THEN dd
    ELSE IF NoYear(Head(recs))
         THEN GroupByDecade(Tail(recs), dd)
         ELSE GroupByDecade(Tail(recs), AddToDecade(dd, Decade(Head(recs)), Head(recs)))

\* `if not recordings or len(recordings) == 0: return inputs[0]`, else the grouping loop
DecStart ==
    /\ dec_pc = "start"
    /\ IF dec_inputs = <<>>
       THEN /\ dec_return' = dec_inputs
            /\ dec_pc' = "done"
            /\ UNCHANGED <<decades, dec_idx>>
       ELSE /\ decades' = GroupByDecade(dec_inputs, <<>>)
            /\ dec_idx' = 1
            /\ dec_pc' = "emit"
            /\ UNCHANGED dec_return
    /\ UNCHANGED <<dec_inputs, minimum_count, playlists>>
    /\ UNCHANGED exceptDec

\* variants of the threshold test: the comparison turned round, and off by one
TooFew_Greater(group, minimum) == Len(group.recs) > minimum
TooFew_OffByOne(group, minimum) == Len(group.recs) < minimum - 1

\* `if len(decades[decade]) < self.minimum_count: continue`
TooFew(group, minimum) == Len(group.recs) < minimum

\* one iteration of `for decade in decades`: skip, or shuffle and append a Playlist
DecEmit ==
    /\ dec_pc = "emit"
    /\ dec_idx <= Len(decades)
    /\ IF TooFew(decades[dec_idx], minimum_count)
       THEN UNCHANGED <<decades, playlists>>
       ELSE \E shuffled \in Perms(decades[dec_idx].recs) :
               /\ decades' = [decades EXCEPT ![dec_idx].recs = shuffled]
               /\ playlists' = Append(playlists,
                                   Playlist(<<decades[dec_idx].decade, "s flashback jams">>,
                                            <<decades[dec_idx].decade, "s_flashback_jams.jspf">>,
                                            shuffled))
    /\ dec_idx' = dec_idx + 1
    /\ UNCHANGED <<dec_pc, dec_inputs, minimum_count, dec_return>>
    /\ UNCHANGED exceptDec

\* `return playlists`
DecReturn ==
    /\ dec_pc = "emit"
    /\ dec_idx > Len(decades)
    /\ dec_return' = playlists
    /\ dec_pc' = "done"
    /\ UNCHANGED <<dec_inputs, minimum_count, decades, playlists, dec_idx>>
    /\ UNCHANGED exceptDec

NextDecade == DecStart \/ DecEmit \/ DecReturn

SpecDecade == InitDecade /\ [][NextDecade]_vars

\* ======================================================================
\* ArtistRadioSourceElement
\* ======================================================================
MAX_NUM_SIMILAR_ARTISTS == 10
MAX_TOP_RECORDINGS_PER_ARTIST == 15
KEEP_TOP_RECORDINGS_PER_ARTIST == 100

Modes == {"easy", "medium", "hard"}
Scores == 0..2
Counts == 0..2

Max(a, b) == IF a >= b THEN a ELSE b

\* recordings[:n]
Truncate(s, n) == IF Len(s) <= n THEN s ELSE SubSeq(s, 1, n)

RECURSIVE GCD(_, _)
GCD(a, b) == IF b = 0 THEN a ELSE GCD(b, a % b)

\* a / float(b) for b # 0, kept exact and in lowest terms
Quotient(a, b) == [num |-> a \div GCD(a, b), den |-> b \div GCD(a, b)]

\* ---- the two services' answers
\* one row of the similar-artists data; `keys` are the keys the row has
SimilarArtist(mbid, score, keys) ==
    [artist_mbid |-> mbid, name |-> <<"artist", mbid>>, score |-> score, keys |-> keys]

SimilarArtistKeys == {"artist_mbid", "name", "score"}

\* ranked rows (scores do not increase), of which at most one lacks a key
SimilarArtistData ==
    UNION {
        {[i \in 1..n |-> SimilarArtist(i, sc[i], IF i = bad[1] THEN SimilarArtistKeys \ {bad[2]}
                                                  ELSE SimilarArtistKeys)] :
            sc \in {f \in [1..n -> Scores] : \A i \in 1..n : \A j \in 1..n : i < j => f[i] >= f[j]},
            bad \in ({0} \cup 1..n) \X SimilarArtistKeys}
        : n \in 0..MaxSimilar}

\* The JSON list the similar-artists service answers with: `sections` is its
\* length; section [3] has no 'data' (<<>>) or a list of rows (<<rows>>);
\* section [1] has no 'data', an empty 'data', a row without 'name', or the seed's row.
SimilarResponses ==
    [sections : {1, 4}, similar : {<<>>} \cup {<<d>> : d \in SimilarArtistData},
     seed : {"nodata", "empty", "noname", "ok"}]

\* one row of the popular-recordings answer
TopRecording(artist_mbid, k, count, keys) ==
    [recording_mbid |-> <<artist_mbid, k>>, count |-> count, keys |-> keys]

TopRecordingKeys == {"recording_mbid", "count"}

\* what fetch_top_recordings may get for an artist: ranked rows, or one row lacking a key
TopRecordingResponses(artist_mbid) ==
    UNION {
        {[k \in 1..n |-> TopRecording(artist_mbid, k, c[k], TopRecordingKeys)] :
            c \in {f \in [1..n -> Counts] : \A i \in 1..n : \A j \in 1..n : i < j => f[i] >= f[j]}}
        : n \in 0..MaxTop}
    \cup {<<TopRecording(artist_mbid, 1, 1, TopRecordingKeys \ {key})>> : key \in TopRecordingKeys}

\* a long ranked list of well-formed rows, all of one score
LongSimilarArtistData == [i \in 1..LongSimilar |-> SimilarArtist(i, 1, SimilarArtistKeys)]

\* for an artist of the long list: no recordings at all, or LongTop ranked ones
LongTopRecordingResponses(artist_mbid) ==
    {<<>>,
     [k \in 1..LongTop |-> TopRecording(artist_mbid, k, LongTop + 1 - k, TopRecordingKeys)]}

\* the answers of the popular-recordings service tried for an artist, by the
\* similar-artists answer the run started from
TopRecordingAnswers(resp, artist_mbid) ==
    IF resp.similar = <<LongSimilarArtistData>>
    THEN LongTopRecordingResponses(artist_mbid)
    ELSE TopRecordingResponses(artist_mbid)

InitArtistRadio ==
    /\ mode \in Modes
    /\ response \in {r \in SimilarResponses :
                        \* what a short or data-less answer holds elsewhere is never read
                        /\ r.sections < 4 => (r.similar = <<>> /\ r.seed = "ok")
                        /\ r.similar = <<>> => r.seed = "ok"}
    /\ ar_pc = "start"
    /\ ar_exception = "none"
    /\ artist_name = <<>>
    /\ similar_artists_filtered = <<>>
    /\ ar_idx = 0
    /\ similar_artists = <<>>
    /\ raw_recordings = <<>>
    /\ fetches = 0
    /\ max_score = 0
    /\ norm_idx = 0
    /\ ar_return = EmptyBag
    /\ IlvIdle /\ DecIdle /\ CrIdle /\ CliIdle /\ LrIdle /\ PrIdle

\* a variant of get_similar_artists without the try/except around r.json()[3]["data"]
get_similar_artists_NoExcept(r) ==
    IF r.sections < 4 THEN [raises |-> "IndexError", artists |-> <<>>, artist_name |-> <<>>]
    ELSE IF r.similar = <<>> THEN [raises |-> "KeyError", artists |-> <<>>, artist_name |-> <<>>]
    ELSE IF r.seed = "ok"
         THEN [raises |-> "none", artists |-> r.similar[1], artist_name |-> <<"seed">>]
         ELSE [raises |-> "KeyError", artists |-> <<>>, artist_name |-> <<>>]

\* get_similar_artists: r.json()[3]["data"] under `except IndexError`, then
\* r.json()[1]["data"][0]["name"] outside any handler
get_similar_artists(r) ==
    IF r.sections < 4
    THEN [raises |-> "none", artists |-> <<>>, artist_name |-> <<>>]
    ELSE IF r.similar = <<>>
    THEN [raises |-> "KeyError", artists |-> <<>>, artist_name |-> <<>>]
    ELSE IF r.seed \in {"nodata", "noname"}
    THEN [raises |-> "KeyError", artists |-> <<>>, artist_name |-> <<>>]
    ELSE IF r.seed = "empty"
    THEN [raises |-> "IndexError", artists |-> <<>>, artist_name |-> <<>>]
    ELSE [raises |-> "none", artists |-> r.similar[1], artist_name |-> <<"seed">>]

\* DataSetSplitter(data, 4)[i], i in 0..3: the i-th of four segments of the ranked list
DataSetSplitter(data, segment_count, i) ==
    SubSeq(data, (i * Len(data)) \div segment_count + 1, ((i + 1) * Len(data)) \div segment_count)

\* the quartiles the mode selects
SelectByMode(m, data) ==
    IF m = "easy" THEN DataSetSplitter(data, 4, 0) \o DataSetSplitter(data, 4, 1)
    ELSE IF m = "medium" THEN DataSetSplitter(data, 4, 1) \o DataSetSplitter(data, 4, 2)
    ELSE DataSetSplitter(data, 4, 2) \o DataSetSplitter(data, 4, 3)

\* read, up to the start of the fetch loop
ArGetSimilar ==
    /\ ar_pc = "start"
    /\ LET got == get_similar_artists(response) IN
         IF got.raises # "none"
         THEN /\ ar_pc' = "raised"
              /\ ar_exception' = got.raises
              /\ UNCHANGED <<artist_name, similar_artists_filtered, ar_idx>>
         ELSE /\ artist_name' = got.artist_name
              /\ similar_artists_filtered' = SelectByMode(mode, got.artists)
              /\ ar_idx' = 1
              /\ ar_pc' = "fetch"
              /\ UNCHANGED ar_exception
    /\ similar_artists' = <<>>
    /\ UNCHANGED <<mode, response, raw_recordings, fetches, max_score, norm_idx, ar_return>>
    /\ UNCHANGED exceptAr

\* the dict appended to self.similar_artists; 'score' is not set yet, and the
\* 'dss' entry, which read never reads again, is left out
Collected(similar_artist, recordings) ==
    [artist_mbid |-> similar_artist.artist_mbid,
     artist_name |-> similar_artist.name,
     raw_score |-> similar_artist.score,
     recordings |-> recordings,
     score |-> <<>>]

\* a variant of the cap that lets one artist too many in
EnoughArtists_Greater(collected) == Len(collected) > MAX_NUM_SIMILAR_ARTISTS

\* `if len(self.similar_artists) >= self.MAX_NUM_SIMILAR_ARTISTS: break`
EnoughArtists(collected) == Len(collected) >= MAX_NUM_SIMILAR_ARTISTS

\* the loop `for sim in self.similar_artists: max_score = max(max_score, sim["raw_score"])`
RECURSIVE MaxRawScore(_)
MaxRawScore(sims) ==
    IF sims = <<>> THEN 0 ELSE Max(Head(sims).raw_score, MaxRawScore(Tail(sims)))

\* the fetch loop is over: the list is exhausted, or `break` was taken
FetchLoopOver(idx, filtered, collected) ==
    IF idx > Len(filtered) THEN TRUE ELSE EnoughArtists(collected)

\* one iteration of the fetch loop
ArFetch ==
    /\ ar_pc = "fetch"
    /\ ~FetchLoopOver(ar_idx, similar_artists_filtered, similar_artists)
    /\ LET similar_artist == similar_artists_filtered[ar_idx] IN
         IF "artist_mbid" \notin similar_artist.keys
         THEN /\ ar_pc' = "raised"
              /\ ar_exception' = "KeyError"
              /\ UNCHANGED <<ar_idx, similar_artists, raw_recordings, fetches>>
         ELSE \E fetched \in TopRecordingAnswers(response, similar_artist.artist_mbid) :
                /\ fetches' = fetches + 1
                /\ IF Len(fetched) = 0
                   THEN /\ ar_idx' = ar_idx + 1
                        /\ UNCHANGED <<ar_pc, ar_exception, similar_artists, raw_recordings>>
                   ELSE IF ~({"name", "score"} \subseteq similar_artist.keys)
                   THEN /\ ar_pc' = "raised"
                        /\ ar_exception' = "KeyError"
                        /\ UNCHANGED <<ar_idx, similar_artists, raw_recordings>>
                   ELSE LET recordings == Truncate(fetched, KEEP_TOP_RECORDINGS_PER_ARTIST) IN
                        /\ similar_artists' =
                              Append(similar_artists, Collected(similar_artist, recordings))
                        /\ raw_recordings' = Append(raw_recordings, recordings)
                        /\ ar_idx' = ar_idx + 1
                        /\ UNCHANGED <<ar_pc, ar_exception>>
    /\ UNCHANGED <<mode, response, artist_name, similar_artists_filtered, max_score, norm_idx,
                   ar_return>>
    /\ UNCHANGED exceptAr

\* after the fetch loop: `max_score = 0` and the loop that finds the largest raw_score
ArFetchEnd ==
    /\ ar_pc = "fetch"
    /\ FetchLoopOver(ar_idx, similar_artists_filtered, similar_artists)
    /\ max_score' = MaxRawScore(similar_artists)
    /\ norm_idx' = 1
    /\ ar_pc' = "normalize"
    /\ UNCHANGED <<mode, response, ar_exception, artist_name, similar_artists_filtered, ar_idx,
                   similar_artists, raw_recordings, fetches, ar_return>>
    /\ UNCHANGED exceptAr

\* the loop `for rec in sim["recordings"]: max_count = max(max_count, rec["count"])`
RECURSIVE MaxCount(_)
MaxCount(recordings) ==
    IF recordings = <<>> THEN 0 ELSE Max(Head(recordings).count, MaxCount(Tail(recordings)))

\* one iteration of the normalisation loop over self.similar_artists
ArNormalize ==
    /\ ar_pc = "normalize"
    /\ norm_idx <= Len(similar_artists)
    /\ LET sim == similar_artists[norm_idx] IN
         IF max_score = 0
         THEN /\ ar_pc' = "raised"
              /\ ar_exception' = "ZeroDivisionError"
              /\ UNCHANGED <<similar_artists, norm_idx>>
         ELSE LET scored == [sim EXCEPT !.score = <<Quotient(sim.raw_score, max_score)>>] IN
              IF \E k \in 1..Len(sim.recordings) : "count" \notin sim.recordings[k].keys
              THEN /\ ar_pc' = "raised"
                   /\ ar_exception' = "KeyError"
                   /\ similar_artists' = [similar_artists EXCEPT ![norm_idx] = scored]
                   /\ UNCHANGED norm_idx
              ELSE IF MaxCount(sim.recordings) = 0
              THEN /\ ar_pc' = "raised"
                   /\ ar_exception' = "ZeroDivisionError"
                   /\ similar_artists' = [similar_artists EXCEPT ![norm_idx] = scored]
                   /\ UNCHANGED norm_idx
              ELSE /\ similar_artists' =
                        [similar_artists EXCEPT ![norm_idx] =
                            [scored EXCEPT !.recordings =
                                [k \in 1..Len(sim.recordings) |->
                                    [sim.recordings[k] EXCEPT
                                        !.count = Quotient(@, MaxCount(sim.recordings))]]]]
                   /\ norm_idx' = norm_idx + 1
                   /\ UNCHANGED <<ar_pc, ar_exception>>
    /\ UNCHANGED <<mode, response, artist_name, similar_artists_filtered, ar_idx,
                   raw_recordings, fetches, max_score, ar_return>>
    /\ UNCHANGED exceptAr

\* the collate loop: Recording(mbid=rec["recording_mbid"]) for the first
\* MAX_TOP_RECORDINGS_PER_ARTIST recordings of every collected artist
RECURSIVE Collate(_)
Collate(sims) ==
    IF sims = <<>> THEN <<>>
    ELSE [k \in 1..Len(Truncate(Head(sims).recordings, MAX_TOP_RECORDINGS_PER_ARTIST)) |->
             Recording(Head(sims).recordings[k].recording_mbid, <<>>)]
         \o Collate(Tail(sims))

CollateRaises(sims) ==
    \E i \in 1..Len(sims) :
        \E k \in 1..Len(Truncate(sims[i].recordings, MAX_TOP_RECORDINGS_PER_ARTIST)) :
            "recording_mbid" \notin sims[i].recordings[k].keys

\* shuffle(recs): any order; the returned list is kept as the bag of its items
RECURSIVE Shuffled(_)
Shuffled(recs) ==
    IF recs = <<>> THEN EmptyBag ELSE SetToBag({Head(recs)}) (+) Shuffled(Tail(recs))

\* collate, shuffle and return
ArCollate ==
    /\ ar_pc = "normalize"
    /\ norm_idx > Len(similar_artists)
    /\ IF CollateRaises(similar_artists)
       THEN /\ ar_pc' = "raised"
            /\ ar_exception' = "KeyError"
            /\ UNCHANGED ar_return
       ELSE /\ ar_return' = Shuffled(Collate(similar_artists))
            /\ ar_pc' = "done"
            /\ UNCHANGED ar_exception
    /\ UNCHANGED <<mode, response, artist_name, similar_artists_filtered, ar_idx, similar_artists,
                   raw_recordings, fetches, max_score, norm_idx>>
    /\ UNCHANGED exceptAr

NextArtistRadio == ArGetSimilar \/ ArFetch \/ ArFetchEnd \/ ArNormalize \/ ArCollate

SpecArtistRadio == InitArtistRadio /\ [][NextArtistRadio]_vars

\* read on a seed with a long list of similar artists, in every mode
InitArtistRadioLong ==
    /\ mode \in Modes
    /\ response = [sections |-> 4, similar |-> <<LongSimilarArtistData>>, seed |-> "ok"]
    /\ ar_pc = "start"
    /\ ar_exception = "none"
    /\ artist_name = <<>>
    /\ similar_artists_filtered = <<>>
    /\ ar_idx = 0
    /\ similar_artists = <<>>
    /\ raw_recordings = <<>>
    /\ fetches = 0
    /\ max_score = 0
    /\ norm_idx = 0
    /\ ar_return = EmptyBag
    /\ IlvIdle /\ DecIdle /\ CrIdle /\ CliIdle /\ LrIdle /\ PrIdle

SpecArtistRadioLong == InitArtistRadioLong /\ [][NextArtistRadio]_vars

\* ======================================================================
\* ArtistRadioPatch.create and WeeklyFlashbackJams.create
\* ======================================================================
Element(cls) == [cls |-> cls, sources |-> <<>>]

\* e.set_sources(srcs), e and srcs being places in `elements`
SetSources(els, e, srcs) == [els EXCEPT ![e].sources = srcs]

\* the values tried for the enumerated parameter, valid or not
ModeValues == Modes \cup {"mediumedium", ""}
TypeValues == {"top", "similar", "daily", ""}

InitCreate ==
    /\ \/ /\ cr_patch = "artist-radio"
          /\ \E m \in ModeValues : \E n \in 0..MaxSeeds :
                cr_inputs = [mode |-> m, artist_mbid |-> [i \in 1..n |-> <<"artist", i>>]]
       \/ /\ cr_patch = "weekly-flashback-jams"
          /\ \E t \in TypeValues : \E u \in {"rob", "mr_monkey"} :
                cr_inputs = [type |-> t, user_name |-> u]
    /\ cr_pc = "start"
    /\ elements = <<>>
    /\ lookups = <<>>
    /\ cr_calls = <<>>
    /\ cr_exception = "none"
    /\ cr_return = <<>>
    /\ IlvIdle /\ DecIdle /\ ArIdle /\ CliIdle /\ LrIdle /\ PrIdle

\* a variant of the test of mode that accepts every value
ValidMode_Any(m) == TRUE

\* `mode not in ("easy", "medium", "hard")`, negated
ValidMode(m) == m \in {"easy", "medium", "hard"}

\* `type not in ("top", "similar")`, negated
ValidType(t) == t \in {"top", "similar"}

\* ArtistRadioPatch.create up to the loop: print(mode), then the test of mode
CrValidateMode ==
    /\ cr_pc = "start"
    /\ cr_patch = "artist-radio"
    /\ cr_calls' = Append(cr_calls, "print")
    /\ IF ValidMode(cr_inputs.mode)
       THEN /\ cr_pc' = IF cr_inputs.artist_mbid = <<>> THEN "interleave" ELSE "source"
            /\ UNCHANGED cr_exception
       ELSE /\ cr_pc' = "raised"
            /\ cr_exception' = "RuntimeError"
    /\ UNCHANGED <<cr_patch, cr_inputs, elements, lookups, cr_return>>
    /\ UNCHANGED exceptCr

\* `ar_source = ArtistRadioSourceElement(mbid, mode)`
CrSource ==
    /\ cr_pc = "source"
    /\ elements' = Append(elements, Element("ArtistRadioSourceElement"))
    /\ cr_calls' = Append(cr_calls, "ArtistRadioSourceElement")
    /\ cr_pc' = "lookup"
    /\ UNCHANGED <<cr_patch, cr_inputs, lookups, cr_exception, cr_return>>
    /\ UNCHANGED exceptCr

\* `recs_lookup = RecordingLookupElement(); recs_lookup.set_sources(ar_source);
\* lookups.append(recs_lookup)`, and the loop's test
CrLookup ==
    /\ cr_pc = "lookup"
    /\ LET ar_source == Len(elements)
           recs_lookup == Len(elements) + 1
       IN /\ elements' = SetSources(Append(elements, Element("RecordingLookupElement")),
                                    recs_lookup, <<ar_source>>)
          /\ lookups' = Append(lookups, recs_lookup)
    /\ cr_calls' = cr_calls \o <<"RecordingLookupElement", "set_sources">>
    /\ cr_pc' = IF Len(lookups') < Len(cr_inputs.artist_mbid) THEN "source" ELSE "interleave"
    /\ UNCHANGED <<cr_patch, cr_inputs, cr_exception, cr_return>>
    /\ UNCHANGED exceptCr

\* `interleave = InterleaveRecordingsElement(); interleave.set_sources(lookups)`
CrInterleave ==
    /\ cr_pc = "interleave"
    /\ elements' = SetSources(Append(elements, Element("InterleaveRecordingsElement")),
                              Len(elements) + 1, lookups)
    /\ cr_calls' = cr_calls \o <<"InterleaveRecordingsElement", "set_sources">>
    /\ cr_pc' = "pl_maker"
    /\ UNCHANGED <<cr_patch, cr_inputs, lookups, cr_exception, cr_return>>
    /\ UNCHANGED exceptCr

\* `pl_maker = PlaylistMakerElement(...); pl_maker.set_sources(interleave); return pl_maker`
CrPlaylistMaker ==
    /\ cr_pc = "pl_maker"
    /\ elements' = SetSources(Append(elements, Element("PlaylistMakerElement")),
                              Len(elements) + 1, <<Len(elements)>>)
    /\ cr_calls' = cr_calls \o <<"PlaylistMakerElement", "set_sources">>
    /\ cr_return' = <<Len(elements) + 1>>
    /\ cr_pc' = "done"
    /\ UNCHANGED <<cr_patch, cr_inputs, lookups, cr_exception>>
    /\ UNCHANGED exceptCr

\* WeeklyFlashbackJams.create: the test of type
CrValidateType ==
    /\ cr_pc = "start"
    /\ cr_patch = "weekly-flashback-jams"
    /\ IF ValidType(cr_inputs.type)
       THEN /\ cr_pc' = "weekly"
            /\ UNCHANGED cr_exception
       ELSE /\ cr_pc' = "raised"
            /\ cr_exception' = "PipelineError"
    /\ UNCHANGED <<cr_patch, cr_inputs, elements, lookups, cr_calls, cr_return>>
    /\ UNCHANGED exceptCr

\* recs, r_lookup, y_lookup, year_sort, decade_splitter, shaper, shuffle
WeeklyChain ==
    <<"UserRecordingRecommendationsElement", "RecordingLookupElement",
      "MBIDMappingLookupElement", "YearSortElement", "DecadePlaylistSplitterElement",
      "PlaylistRedundancyReducerElement", "PlaylistShuffleElement">>

\* the next element of the chain is constructed and, but for the first, given the
\* one before it as its source
CrWeekly ==
    /\ cr_pc = "weekly"
    /\ Len(elements) < Len(WeeklyChain)
    /\ LET cls == WeeklyChain[Len(elements) + 1] IN
         IF elements = <<>>
         THEN /\ elements' = <<Element(cls)>>
              /\ cr_calls' = Append(cr_calls, cls)
         ELSE /\ elements' = SetSources(Append(elements, Element(cls)),
                                        Len(elements) + 1, <<Len(elements)>>)
              /\ cr_calls' = cr_calls \o <<cls, "set_sources">>
    /\ UNCHANGED <<cr_pc, cr_patch, cr_inputs, lookups, cr_exception, cr_return>>
    /\ UNCHANGED exceptCr

\* `return shuffle`
CrWeeklyReturn ==
    /\ cr_pc = "weekly"
    /\ Len(elements) = Len(WeeklyChain)
    /\ cr_return' = <<Len(elements)>>
    /\ cr_pc' = "done"
    /\ UNCHANGED <<cr_patch, cr_inputs, elements, lookups, cr_calls, cr_exception>>
    /\ UNCHANGED exceptCr

NextCreate ==
    \/ CrValidateMode \/ CrSource \/ CrLookup \/ CrInterleave \/ CrPlaylistMaker
    \/ CrValidateType \/ CrWeekly \/ CrWeeklyReturn

SpecCreate == InitCreate /\ [][NextCreate]_vars

\* ======================================================================
\* The `playlist` command
\* ======================================================================

\* the slugs discover_patches() finds
Patches == {"artist-radio", "weekly-flashback-jams"}

\* the status a process ends with when sys.exit(n) is called
ExitStatus(n) == n % 256

InitPlaylistCli ==
    /\ patchname \in Patches \cup {"no-such-patch"}
    /\ patch_args \in [echo : BOOLEAN, save : BOOLEAN, upload : BOOLEAN]
    /\ args_ok \in BOOLEAN
    /\ cli_pc = "start"
    /\ ret = <<>>
    /\ stderr = 0
    /\ exit_status = <<>>
    /\ IlvIdle /\ DecIdle /\ ArIdle /\ CrIdle /\ LrIdle /\ PrIdle

\* `return None` out of the command: cli() returns and `sys.exit(0)` ends the process
UnknownPatchExit == <<ExitStatus(0)>>

\* `if patchname not in patches:` print to stderr and return None
CliLookup ==
    /\ cli_pc = "start"
    /\ IF patchname \notin Patches
       THEN /\ stderr' = stderr + 1
            /\ exit_status' = UnknownPatchExit
            /\ cli_pc' = "exited"
       ELSE /\ cli_pc' = "context"
            /\ UNCHANGED <<stderr, exit_status>>
    /\ UNCHANGED <<patchname, patch_args, args_ok, ret>>
    /\ UNCHANGED exceptCli

\* `cmd.make_context(patchname, list(args))`: arguments that do not parse end the
\* process with click's usage status
CliContext ==
    /\ cli_pc = "context"
    /\ IF args_ok
       THEN /\ cli_pc' = "generate"
            /\ UNCHANGED <<stderr, exit_status>>
       ELSE /\ stderr' = stderr + 1
            /\ exit_status' = <<ExitStatus(2)>>
            /\ cli_pc' = "exited"
    /\ UNCHANGED <<patchname, patch_args, args_ok, ret>>
    /\ UNCHANGED exceptCli

\* `ret = patch.generate_playlist()`: success, failure, or an exception that ends
\* the process with a traceback
CliGenerate ==
    /\ cli_pc = "generate"
    /\ \E outcome \in {"playlist", "nothing", "raises"} :
          IF outcome = "raises"
          THEN /\ stderr' = stderr + 1
               /\ exit_status' = <<ExitStatus(1)>>
               /\ cli_pc' = "exited"
               /\ UNCHANGED ret
          ELSE /\ ret' = <<outcome = "playlist">>
               /\ cli_pc' = "feedback"
               /\ UNCHANGED <<stderr, exit_status>>
    /\ UNCHANGED <<patchname, patch_args, args_ok>>
    /\ UNCHANGED exceptCli

\* `0 if ret else -1`
ExitCode(r) == IF r THEN 0 ELSE -1

\* the user feedback is printed, then `sys.exit(0 if ret else -1)`
CliExit ==
    /\ cli_pc = "feedback"
    /\ exit_status' = <<ExitStatus(ExitCode(ret[1]))>>
    /\ cli_pc' = "exited"
    /\ UNCHANGED <<patchname, patch_args, args_ok, ret, stderr>>
    /\ UNCHANGED exceptCli

NextPlaylistCli == CliLookup \/ CliContext \/ CliGenerate \/ CliExit

SpecPlaylistCli == InitPlaylistCli /\ [][NextPlaylistCli]_vars

\* ======================================================================
\* The `lb-radio` and `weekly-jams` commands
\* ======================================================================

\* what generate may return: None (<<>>), or an object whose playlists (<<pls>>)
\* each hold a list of recordings
GenerateResults ==
    {<<>>} \cup
    {<<pls>> : pls \in UNION {[1..n -> {[recordings |-> [k \in 1..m |-> k]] : m \in 0..MaxTracks}]
                               : n \in 0..MaxPlaylists}}

InitLocalCli ==
    /\ lr_command \in {"lb-radio", "weekly-jams"}
    /\ upload_to_subsonic \in BOOLEAN
    /\ lr_pc = "start"
    /\ generated = <<>>
    /\ lr_calls = <<>>
    /\ IlvIdle /\ DecIdle /\ ArIdle /\ CrIdle /\ CliIdle /\ PrIdle

\* `db_file_check(db_file); db = SubsonicDatabase(db_file, config); db.open()`
LrOpen ==
    /\ lr_pc = "start"
    /\ lr_calls' = lr_calls \o <<"db_file_check", "open">>
    /\ lr_pc' = "generate"
    /\ UNCHANGED <<lr_command, upload_to_subsonic, generated>>
    /\ UNCHANGED exceptLr

\* `playlist = r.generate(mode, prompt, threshold)` / `playlist = pj.generate()`
LrGenerate ==
    /\ lr_pc = "generate"
    /\ generated' \in GenerateResults
    /\ lr_calls' = Append(lr_calls, "generate")
    /\ lr_pc' = "check"
    /\ UNCHANGED <<lr_command, upload_to_subsonic>>
    /\ UNCHANGED exceptLr

\* a variant that looks for a first playlist only, not for a recording in it
NoFirstRecording_PlaylistOnly(playlist) ==
    IF playlist = <<>> THEN TRUE ELSE playlist[1] = <<>>

\* `_ = playlist.playlists[0].recordings[0]` raises AttributeError (None) or
\* IndexError (no playlist, or no recording in the first one)
NoFirstRecording(playlist) ==
    IF playlist = <<>> THEN TRUE
    ELSE IF playlist[1] = <<>> THEN TRUE
    ELSE playlist[1][1].recordings = <<>>

\* the try/except and what follows: the sanity check and return, or output_playlist
LrCheck ==
    /\ lr_pc = "check"
    /\ IF NoFirstRecording(generated)
       THEN lr_calls' = Append(lr_calls, "metadata_sanity_check")
       ELSE lr_calls' = Append(lr_calls, "output_playlist")
    /\ lr_pc' = "done"
    /\ UNCHANGED <<lr_command, upload_to_subsonic, generated>>
    /\ UNCHANGED exceptLr

NextLocalCli == LrOpen \/ LrGenerate \/ LrCheck

SpecLocalCli == InitLocalCli /\ [][NextLocalCli]_vars

\* ======================================================================
\* PrintRecordingList
\* ======================================================================

\* A Recording as print_recording reads it: year is None (<<>>) or a number;
\* the dicts listenbrainz, acousticbrainz and musicbrainz are kept as their keys.
RecordingWith(mbid, year, listenbrainz, acousticbrainz, musicbrainz) ==
    [type |-> "Recording", mbid |-> mbid, year |-> year, listenbrainz |-> listenbrainz,
     acousticbrainz |-> acousticbrainz, musicbrainz |-> musicbrainz]

\* the Recordings tried at one place of a list
RecordingsAt(mbid) ==
    {RecordingWith(mbid, year, listenbrainz, acousticbrainz, musicbrainz) :
        year \in {<<>>, <<1980>>},
        listenbrainz \in SUBSET {"listen_count"},
        acousticbrainz \in SUBSET {"bpm", "moods"},
        musicbrainz \in SUBSET {"genres", "tags"}}

\* an object of another type
Other(type) == [type |-> type]

\* what a list may hold at one place: a Recording, or a str
Items == RecordingsAt(0) \cup {Other("str")}

\* the item as it stands at place i of a list: a Recording is named by its place
Placed(item, i) == IF item.type = "Recording" THEN [item EXCEPT !.mbid = i] ELSE item

\* the lists of n items drawn from a set
ListsOf(items, n) == {[i \in 1..n |-> Placed(f[i], i)] : f \in [1..n -> items]}

\* what print is handed: a Recording, a list of n items, a Playlist of n
\* Recordings, or something else
PrintEntities(n) ==
    RecordingsAt(1)
    \cup {[type |-> "list", items |-> l] : l \in ListsOf(Items, n)}
    \cup {Playlist("name", "", l) : l \in ListsOf(RecordingsAt(0), n)}
    \cup {Other("NoneType"), Other("str"), Other("dict")}

\* PrintRecordingList(), then print(entity)
InitPrint ==
    /\ \E n \in 0..MaxPrint : pr_entity \in PrintEntities(n)
    /\ pr_pc = "start"
    /\ pr_idx = 0
    /\ printed = <<>>
    /\ pr_exception = "none"
    /\ print_year = <<>>
    /\ print_listen_count = <<>>
    /\ print_bpm = <<>>
    /\ print_moods = <<>>
    /\ print_genre = <<>>
    /\ IlvIdle /\ DecIdle /\ ArIdle /\ CrIdle /\ CliIdle /\ LrIdle

\* the five flags of the object
Headers ==
    [print_year |-> print_year, print_listen_count |-> print_listen_count,
     print_bpm |-> print_bpm, print_moods |-> print_moods, print_genre |-> print_genre]

\* _examine_recording_for_headers: the columns the first recording asks for
ExamineRecordingForHeaders(recording) ==
    [print_year |-> <<recording.year # <<>>>>,
     print_listen_count |-> <<"listen_count" \in recording.listenbrainz>>,
     print_bpm |-> <<"bpm" \in recording.acousticbrainz>>,
     print_moods |-> <<"moods" \in recording.acousticbrainz>>,
     print_genre |-> <<recording.musicbrainz # {}>>]

\* the flags after print_recording(recording): set on the first Recording only
HeadersAfter(h, recording) ==
    IF h.print_year = <<>> /\ recording.type = "Recording"
    THEN ExamineRecordingForHeaders(recording)
    ELSE h

\* the exception print_recording ends with under flags h, or "none": a str has
\* no attribute `year`; " %d" % None; a key the first recording had is missing;
\* the genre column reads both 'genres' and 'tags'
PrintRecordingRaises(h, recording) ==
    IF recording.type # "Recording" THEN "AttributeError"
    ELSE IF h.print_year = <<TRUE>> /\ recording.year = <<>> THEN "TypeError"
    ELSE IF h.print_listen_count = <<TRUE>> /\ "listen_count" \notin recording.listenbrainz
    THEN "KeyError"
    ELSE IF h.print_bpm = <<TRUE>> /\ "bpm" \notin recording.acousticbrainz THEN "KeyError"
    ELSE IF h.print_moods = <<TRUE>> /\ "moods" \notin recording.acousticbrainz THEN "KeyError"
    ELSE IF h.print_genre = <<TRUE>> /\ ~({"genres", "tags"} \subseteq recording.musicbrainz)
    THEN "KeyError"
    ELSE "none"

\* print_recording(recording), called from print; `after` is where print goes on
PrintRecording(recording, after) ==
    LET h == HeadersAfter(Headers, recording)
        raises == PrintRecordingRaises(h, recording) IN
    /\ print_year' = h.print_year
    /\ print_listen_count' = h.print_listen_count
    /\ print_bpm' = h.print_bpm
    /\ print_moods' = h.print_moods
    /\ print_genre' = h.print_genre
    /\ printed' = IF recording.type = "Recording" THEN Append(printed, recording.mbid)
                  ELSE printed
    /\ pr_exception' = raises
    /\ pr_pc' = IF raises = "none" THEN after ELSE "raised"

\* the `raise PipelineError(...)` that ends print
RaisePipelineError ==
    /\ pr_pc' = "raised"
    /\ pr_exception' = "PipelineError"
    /\ UNCHANGED <<printed, print_year, print_listen_count, print_bpm, print_moods, print_genre>>

\* print, up to its first loop
PrPrint ==
    /\ pr_pc = "start"
    /\ IF pr_entity.type = "Recording"
       THEN PrintRecording(pr_entity, "done") /\ UNCHANGED pr_idx
       ELSE IF pr_entity.type = "list"
       THEN IF pr_entity.items = <<>>
            THEN /\ pr_pc' = "raised"
                 /\ pr_exception' = "IndexError"
                 /\ UNCHANGED <<pr_idx, printed, print_year, print_listen_count, print_bpm,
                                print_moods, print_genre>>
            ELSE IF pr_entity.items[1].type = "Recording"
            THEN /\ pr_pc' = "list"
                 /\ pr_idx' = 1
                 /\ UNCHANGED <<printed, pr_exception, print_year, print_listen_count,
                                print_bpm, print_moods, print_genre>>
            ELSE RaisePipelineError /\ UNCHANGED pr_idx
       ELSE IF pr_entity.type = "Playlist"
       THEN /\ pr_pc' = "playlist"
            /\ pr_idx' = 1
            /\ UNCHANGED <<printed, pr_exception, print_year, print_listen_count,
                           print_bpm, print_moods, print_genre>>
       ELSE RaisePipelineError /\ UNCHANGED pr_idx
    /\ UNCHANGED pr_entity
    /\ UNCHANGED exceptPr

\* one iteration of `for rec in entity`
PrListItem ==
    /\ pr_pc = "list"
    /\ pr_idx <= Len(pr_entity.items)
    /\ PrintRecording(pr_entity.items[pr_idx], "list")
    /\ pr_idx' = pr_idx + 1
    /\ UNCHANGED pr_entity
    /\ UNCHANGED exceptPr

\* after the list loop: the entity is no Playlist, and the raise is reached
PrListEnd ==
    /\ pr_pc = "list"
    /\ pr_idx > Len(pr_entity.items)
    /\ RaisePipelineError
    /\ UNCHANGED <<pr_entity, pr_idx>>
    /\ UNCHANGED exceptPr

\* one iteration of `for rec in entity.recordings`
PrPlaylistItem ==
    /\ pr_pc = "playlist"
    /\ pr_idx <= Len(pr_entity.recordings)
    /\ PrintRecording(pr_entity.recordings[pr_idx], "playlist")
    /\ pr_idx' = pr_idx + 1
    /\ UNCHANGED pr_entity
    /\ UNCHANGED exceptPr

\* after the Playlist loop: the raise is reached
PrPlaylistEnd ==
    /\ pr_pc = "playlist"
    /\ pr_idx > Len(pr_entity.recordings)
    /\ RaisePipelineError
    /\ UNCHANGED <<pr_entity, pr_idx>>
    /\ UNCHANGED exceptPr

NextPrint == PrPrint \/ PrListItem \/ PrListEnd \/ PrPlaylistItem \/ PrPlaylistEnd

SpecPrint == InitPrint /\ [][NextPrint]_vars

\* ======================================================================
\* Properties
\* ======================================================================

\* ---- round-robin interleaving, stated on the input alone
MaxLength(lists) ==
    IF lists = <<>> THEN 0
    ELSE CHOOSE m \in {Len(lists[i]) : i \in 1..Len(lists)} :
            \A i \in 1..Len(lists) : Len(lists[i]) <= m

\* the items at index j of every source that has one, in source order
RECURSIVE ItemsAt(_, _, _)
ItemsAt(lists, j, i) ==
    IF i > Len(lists) THEN <<>>
    ELSE IF j <= Len(lists[i])
         THEN <<lists[i][j]>> \o ItemsAt(lists, j, i + 1)
         ELSE ItemsAt(lists, j, i + 1)

RECURSIVE RoundsFrom(_, _)
RoundsFrom(lists, j) ==
    IF j > MaxLength(lists) THEN <<>>
    ELSE ItemsAt(lists, j, 1) \o RoundsFrom(lists, j + 1)

RoundRobin(lists) == RoundsFrom(lists, 1)

\* C1: InterleaveRecordingsElement.read terminates, and what it returns is the
\* round-robin interleaving of its input sequences: as many items as the inputs
\* hold together, every item once, the items of one source in their order.
C1_Interleave ==
    /\ [](ilv_pc = "done" =>
            /\ ilv_recordings = RoundRobin(ilv_input)
            /\ Len(ilv_recordings) = SumLen(ilv_input)
            /\ \A i \in 1..Len(ilv_input) :
                  SelectSeq(ilv_recordings, LAMBDA x : x[1] = i) = ilv_input[i]
            /\ \A a, b \in 1..Len(ilv_recordings) :
                  a # b => ilv_recordings[a] # ilv_recordings[b])
    /\ <>(ilv_pc = "done")

\* sources of lengths 3, 1 and 2 have been interleaved
C1_Witness ==
    /\ ilv_pc = "done"
    /\ Len(ilv_input) = 3
    /\ Len(ilv_input[1]) = 3 /\ Len(ilv_input[2]) = 1 /\ Len(ilv_input[3]) = 2
    /\ ilv_recordings = << <<1, 1>>, <<2, 1>>, <<3, 1>>, <<1, 2>>, <<3, 2>>, <<1, 3>> >>

\* ---- the decade splitter
\* C2: every Playlist that DecadePlaylistSplitterElement.read returns holds only
\* Recordings of one decade (year // 10) * 10, none without a year, and at least
\* minimum_count of them.
C2_DecadePlaylists ==
    dec_pc = "done" =>
        \A k \in 1..Len(dec_return) :
            dec_return[k].type = "Playlist" =>
                /\ \A r \in Range(dec_return[k].recordings) : r.year # <<>>
                /\ \A r1, r2 \in Range(dec_return[k].recordings) :
                      (r1.year[1] \div 10) * 10 = (r2.year[1] \div 10) * 10
                /\ Len(dec_return[k].recordings) >= minimum_count

\* a playlist of two recordings was returned although the input held one without a year
C2_Witness ==
    /\ dec_pc = "done"
    /\ minimum_count = 2
    /\ Len(dec_return) = 1
    /\ dec_return[1].type = "Playlist"
    /\ \E r \in Range(dec_inputs) : r.year = <<>>

\* the decades of the input's recordings that have a year
InputDecades == {(r.year[1] \div 10) * 10 : r \in {x \in Range(dec_inputs) : ~NoYear(x)}}

InputDecadeCount(d) ==
    Cardinality({i \in 1..Len(dec_inputs) :
                    /\ ~NoYear(dec_inputs[i])
                    /\ (dec_inputs[i].year[1] \div 10) * 10 = d})

NoGroupReaches == \A d \in InputDecades : InputDecadeCount(d) < minimum_count

\* C3 as stated: in both degenerate cases (empty input; no decade group reaches
\* minimum_count) read returns its input unchanged.
C3_Original ==
    (dec_pc = "done" /\ (dec_inputs = <<>> \/ NoGroupReaches)) => dec_return = dec_inputs

\* C3: on an empty input read returns that empty input; on a non-empty input of
\* which no decade group reaches minimum_count it returns an empty list of
\* playlists, not the input.
C3_Degenerate ==
    dec_pc = "done" =>
        /\ dec_inputs = <<>> => dec_return = dec_inputs
        /\ (dec_inputs # <<>> /\ NoGroupReaches) => (dec_return = <<>> /\ dec_return # dec_inputs)

\* a non-empty input with a dated recording, and no group large enough
C3_Witness ==
    /\ dec_pc = "done"
    /\ dec_inputs # <<>>
    /\ InputDecades # {}
    /\ NoGroupReaches
    /\ dec_return = <<>>

\* ---- artist radio
One == Quotient(1, 1)
Zero == Quotient(0, 1)

ReadEnded == ar_pc \in {"done", "raised"}

\* C4 as stated: normalisation never divides by zero; a group (the artists' scores,
\* or one artist's recording counts) whose maximum is 0 is normalised to all 0.
C4_ZeroMaximum ==
    /\ ar_exception # "ZeroDivisionError"
    /\ ar_pc = "done" =>
          \A i \in 1..Len(similar_artists) :
              /\ max_score = 0 => similar_artists[i].score = <<Zero>>
              /\ MaxCount(raw_recordings[i]) = 0 =>
                    \A k \in 1..Len(similar_artists[i].recordings) :
                        similar_artists[i].recordings[k].count = Zero

\* C5 as stated: when read has ended on well-formed answers with a positive largest
\* raw_score, every artist has a score in [0,1] and the largest is 1, and in every
\* artist's recordings each count is the raw count over that artist's own largest
\* count, the largest being 1.
C5_Normalization ==
    (/\ ReadEnded
     /\ ar_exception \notin {"KeyError", "IndexError"}
     /\ similar_artists # <<>>
     /\ MaxRawScore(similar_artists) > 0)
    => /\ ar_exception = "none"
       /\ \A i \in 1..Len(similar_artists) :
              /\ similar_artists[i].score # <<>>
              /\ similar_artists[i].score[1].num >= 0
              /\ similar_artists[i].score[1].num <= similar_artists[i].score[1].den
       /\ \E i \in 1..Len(similar_artists) : similar_artists[i].score = <<One>>
       /\ \A i \in 1..Len(similar_artists) :
              /\ \A k \in 1..Len(similar_artists[i].recordings) :
                    similar_artists[i].recordings[k].count =
                        Quotient(raw_recordings[i][k].count, MaxCount(raw_recordings[i]))
              /\ \E k \in 1..Len(similar_artists[i].recordings) :
                    similar_artists[i].recordings[k].count = One

\* the service answered with no similar artists: a list too short to hold them,
\* or an empty list beside the seed's own row
ZeroSimilarReturned ==
    \/ response.sections < 4
    \/ response.similar = << <<>> >> /\ response.seed = "ok"

\* C6: in mode easy, when the service returns zero similar artists, read raises
\* nothing, fetches no top recordings, and runs on to return an empty list.
C6_ZeroSimilar ==
    (mode = "easy" /\ ZeroSimilarReturned /\ ar_pc \notin {"idle", "start"}) =>
        /\ ar_exception = "none"
        /\ ar_pc # "raised"
        /\ fetches = 0
        /\ similar_artists = <<>>
        /\ ar_pc # "done" => ENABLED NextArtistRadio
        /\ ar_pc = "done" => ar_return = EmptyBag

\* read has returned after an answer that holds an empty list of similar artists
C6_Witness ==
    /\ ar_pc = "done"
    /\ mode = "easy"
    /\ response.sections = 4
    /\ response.similar = << <<>> >>
    /\ fetches = 0
    /\ ar_return = EmptyBag

\* C7 as stated: whatever is missing from the two services' answers, no lookup
\* exception (KeyError, IndexError) leaves read.
C7_MalformedAsNoData == ar_exception \notin {"KeyError", "IndexError"}

\* ---- Patch.create
InvalidParameter ==
    \/ cr_patch = "artist-radio" /\ cr_inputs.mode \notin {"easy", "medium", "hard"}
    \/ cr_patch = "weekly-flashback-jams" /\ cr_inputs.type \notin {"top", "similar"}

SourceClasses == {"ArtistRadioSourceElement", "UserRecordingRecommendationsElement"}

\* the element returned is the last of a graph in which every element but the
\* source elements was given its sources, and every element feeds another or is the root
WiredRoot ==
    /\ cr_return # <<>>
    /\ cr_return[1] = Len(elements)
    /\ Cardinality({i \in 1..Len(cr_calls) : cr_calls[i] = "set_sources"})
          = Cardinality({e \in 1..Len(elements) : elements[e].cls \notin SourceClasses})
    /\ \A e \in 1..Len(elements) :
          \/ e = cr_return[1]
          \/ \E d \in 1..Len(elements) : e \in Range(elements[d].sources)
    /\ \A e \in 1..Len(elements) :
          (elements[e].sources = <<>>) =>
              \/ elements[e].cls \in SourceClasses
              \/ elements[e].cls = "InterleaveRecordingsElement" /\ lookups = <<>>

C9_ExitStatus ==
    cli_pc = "exited" => (exit_status = <<0>> <=> ret = <<TRUE>>)

Calls(name) == Cardinality({i \in 1..Len(lr_calls) : lr_calls[i] = name})

\* generate gave no result, no playlist, or a playlist with no recordings
ZeroUsableTracks ==
    \/ generated = <<>>
    \/ generated # <<>> /\ generated[1] = <<>>
    \/ generated # <<>> /\ generated[1] # <<>> /\ generated[1][1].recordings = <<>>

ReturnedOf(artist_mbid) ==
    LET mine == {rec \in BagToSet(ar_return) : rec.mbid[1] = artist_mbid} IN
    [rec \in mine |-> CopiesIn(rec, ar_return)]

\* the position in the selected list of the last artist a fetch was made for
LastFetched == similar_artists_filtered[fetches].artist_mbid

\* C11: in every state of read at most MAX_NUM_SIMILAR_ARTISTS artists are
\* collected, each with a non-empty recording list; once the cap is reached the
\* last fetch made is the one of the last collected artist, so no fetch follows
\* it; fetches with no recordings do not count toward the cap; and the returned
\* list holds at most MAX_TOP_RECORDINGS_PER_ARTIST Recordings per collected artist
C11_SimilarArtistsCap ==
    /\ Len(similar_artists) <= MAX_NUM_SIMILAR_ARTISTS
    /\ Len(similar_artists) <= fetches
    /\ \A i \in 1..Len(similar_artists) : similar_artists[i].recordings # <<>>
    /\ Len(similar_artists) = MAX_NUM_SIMILAR_ARTISTS
         => similar_artists[MAX_NUM_SIMILAR_ARTISTS].artist_mbid = LastFetched
    /\ ar_pc = "done"
         => /\ \A i \in 1..Len(similar_artists) :
                 BagCardinality(ReturnedOf(similar_artists[i].artist_mbid))
                    <= MAX_TOP_RECORDINGS_PER_ARTIST
            /\ BagCardinality(ar_return)
                 <= MAX_TOP_RECORDINGS_PER_ARTIST * Len(similar_artists)

\* read returned with the cap reached after a skipped artist and before the
\* selected list was exhausted, every collected artist giving a full share
C11_Witness ==
    /\ ar_pc = "done"
    /\ Len(similar_artists) = MAX_NUM_SIMILAR_ARTISTS
    /\ fetches > MAX_NUM_SIMILAR_ARTISTS
    /\ fetches < Len(similar_artists_filtered)
    /\ BagCardinality(ar_return) = MAX_TOP_RECORDINGS_PER_ARTIST * MAX_NUM_SIMILAR_ARTISTS

\* C13: read leaves its inputs alone: when it has returned, every input
\* sequence holds the items it held when read was called, in the same order
C13_InputsUnchanged == ilv_pc = "done" => entities = ilv_input

\* print accepts the entity: a Recording, a list of Recordings, or a Playlist
Accepted(entity) ==
    \/ entity.type \in {"Recording", "Playlist"}
    \/ entity.type = "list" /\ \A i \in 1..Len(entity.items) : entity.items[i].type = "Recording"

\* the mbids of the recordings of an accepted entity, in order
MbidsOf(entity) ==
    IF entity.type = "Recording" THEN <<entity.mbid>>
    ELSE IF entity.type = "list" THEN [i \in 1..Len(entity.items) |-> entity.items[i].mbid]
    ELSE [i \in 1..Len(entity.recordings) |-> entity.recordings[i].mbid]

\* C12 as stated: print of a Recording, a list of Recordings or a Playlist writes
\* every recording once, in order, and returns normally; PipelineError is raised
\* only for an entity that is none of these
C12_PrintAccepts ==
    pr_pc \in {"done", "raised"}
        => /\ Accepted(pr_entity) => pr_pc = "done" /\ printed = MbidsOf(pr_entity)
           /\ pr_exception = "PipelineError" => ~Accepted(pr_entity)

====
